---- MODULE Spec2Model ----
(***************************************************************************)
(* A model of server-users (src/src/main.rs): the terminal dashboard that  *)
(* samples per-user CPU and RAM of a remote host over SSH.                 *)
(*                                                                         *)
(* The shared App value lives behind one Mutex.  Three kinds of threads    *)
(* touch it: the interactive thread (run_app's loop), one connect thread   *)
(* per accepted submit, and one polling-loop thread per successful         *)
(* connect.  Every critical section is modelled by two steps, the one      *)
(* that takes the lock and the one that runs the body and drops the guard. *)
(*                                                                         *)
(* Numbers: cpu_percent and ram_mb are f64 printed by the remote awk with  *)
(* "%.2f"; the model keeps them as integers in hundredths.  Timestamps     *)
(* (last_updated, timestamp) are not modelled.                             *)
(***************************************************************************)
EXTENDS Integers, Sequences, FiniteSets, TLC

(***************************************************************************)
(* Bounds of the model                                                     *)
(***************************************************************************)
\* connect threads of one run (one per accepted submit)
MaxAttempts == 3
\* submits accepted in one run of the connection life cycle (SpecSession)
MaxSessions == 2
\* fetches performed by all polling loops together in one run
MaxPolls == 3
\* animation frames drawn in one Connecting phase
MaxConnFrames == 1
\* characters a text field of the form may hold
MaxLen == 2
\* fetches performed by the polling loop of the monitoring screen (SpecSelect)
MaxTicks == 2
\* ticks of the polling loop in a long Monitoring session (SpecHistory)
HistoryTicks == 101

(***************************************************************************)
(* Program constants                                                       *)
(***************************************************************************)
MAX_HISTORY == 100

Attempts == 1..MaxAttempts

None == <<>>
Some(v) == <<v>>

(***************************************************************************)
(* Keys: KeyCode plus the SHIFT modifier, as run_app matches them          *)
(***************************************************************************)
Key(code, ch, shift) == [code |-> code, ch |-> ch, shift |-> shift]
KeyChar(c) == Key("Char", c, FALSE)
KeyEsc == Key("Esc", "", FALSE)
KeyEnter == Key("Enter", "", FALSE)
KeyTab == Key("Tab", "", FALSE)
KeyShiftTab == Key("Tab", "", TRUE)
KeyUp == Key("Up", "", FALSE)
KeyDown == Key("Down", "", FALSE)
KeyBackspace == Key("Backspace", "", FALSE)
KeyOther == Key("F1", "", FALSE)

\* the characters the modelled user types
Chars == {"a", "q", " ", "c", "C", "r", "R"}

AllKeys ==
    {KeyEsc, KeyEnter, KeyTab, KeyShiftTab, KeyUp, KeyDown, KeyBackspace, KeyOther}
        \cup {KeyChar(c) : c \in Chars}

\* the keys of a user who only connects, cancels, leaves and quits
SessionKeys == {KeyEnter, KeyEsc, KeyChar("q")}

(***************************************************************************)
(* Remote output: lines of whitespace-separated tokens.  A token is a      *)
(* decimal numeral (its value in hundredths) or any other word.            *)
(***************************************************************************)
\* the f64 value NaN, apart from every number of the model (all are >= 0)
NaN == -1

Num(n) == <<"num", n>>
Word(s) == <<"word", s>>

\* "alice 12.50 200.00\nbob 3.00 50.00\n"
OutputA ==
    << <<Word("alice"), Num(1250), Num(20000)>>,
       <<Word("bob"), Num(300), Num(5000)>> >>

\* "carol 0.50 n/a\njunk\ndave 0.50 30.00\n"
OutputB ==
    << <<Word("carol"), Num(50), Word("n/a")>>,
       <<Word("junk")>>,
       <<Word("dave"), Num(50), Num(3000)>> >>

\* "grace 2.00 20.00\nfrank 2.00 30.00\nerin 4.00 20.00\n": grace and frank tie in
\* cpu, grace and erin tie in ram
OutputTrio ==
    << <<Word("grace"), Num(200), Num(2000)>>,
       <<Word("frank"), Num(200), Num(3000)>>,
       <<Word("erin"), Num(400), Num(2000)>> >>

\* "root 1.00 10.00\n"
OutputRoot == << <<Word("root"), Num(100), Num(1000)>> >>

\* "": the remote pipeline printed nothing
OutputNone == <<>>

\* "zed nan 1.00\nyan 2.00 3.00\n"
OutputNanCpu ==
    << <<Word("zed"), Word("nan"), Num(100)>>,
       <<Word("yan"), Num(200), Num(300)>> >>

\* "zed 1.00 nan\nyan 2.00 3.00\n"
OutputNanRam ==
    << <<Word("zed"), Num(100), Word("nan")>>,
       <<Word("yan"), Num(200), Num(300)>> >>

RemoteOutputs == {OutputA, OutputB}

\* the hosts of the modelled network: "a" always has alice and bob or carol and dave
\* logged in; on "aa" the pipeline lists grace, frank and erin, or root alone, or
\* prints nothing
QuietHost == <<"a", "a">>

\* on "c" the pipeline lists root alone, or zed and yan with the word nan in the
\* place of one of zed's two values
OddHost == <<"c">>

RemoteOutputsOf(host) ==
    IF host = QuietHost THEN {OutputTrio, OutputRoot, OutputNone}
    ELSE IF host = OddHost THEN {OutputRoot, OutputNanCpu, OutputNanRam}
    ELSE RemoteOutputs

\* causes of a failed fetch: TcpStream::connect, handshake, userauth_*, exec, read
FailureCauses == {"ConnectError", "AuthError"}

VARIABLES
    state,          \* App.state: "Config" | "Connecting" | "Monitoring"
    config,         \* App.config: ConfigScreen
    loading,        \* App.loading: LoadingScreen (progress, direction)
    users,          \* App.users
    history,        \* App.history
    selected_user,  \* App.selected_user
    sort_by,        \* App.sort_by: "Cpu" | "Ram"
    should_quit,    \* App.should_quit
    lock,           \* owner of the Mutex<App>: <<"free">>, <<"main">>, <<"conn", i>>, <<"poll", i>>
    mainPc,         \* position of the interactive thread in run_app's loop
    conn,           \* conn[i]: the connect thread of the i-th accepted submit
    poll,           \* poll[i]: the polling loop spawned by conn[i]
    spawned,        \* number of connect threads spawned so far
    nPolls          \* history variable: fetches performed by polling loops

appVars == <<state, config, loading, users, history, selected_user, sort_by, should_quit>>
ghostVars == <<nPolls>>
vars == <<state, config, loading, users, history, selected_user, sort_by, should_quit,
          lock, mainPc, conn, poll, spawned, nPolls>>

Free == <<"free">>
MainThread == <<"main">>
ConnThread(i) == <<"conn", i>>
PollThread(i) == <<"poll", i>>

\* a thread panicked while it held the guard: every later lock() returns Err
Poisoned == <<"poisoned">>

(***************************************************************************)
(* ConfigScreen                                                            *)
(***************************************************************************)
\* "$HOME/.ssh/id_rsa", kept as one unit of text
DefaultKeyPath == <<"~/.ssh/id_rsa">>

ConfigScreen_new ==
    [host |-> <<>>, username |-> <<>>, password |-> <<>>, use_ssh_key |-> FALSE,
     ssh_key_path |-> DefaultKeyPath, current_field |-> "Host", error_message |-> None]

next_field(c) ==
    [c EXCEPT !.current_field =
        CASE c.current_field = "Host" -> "Username"
          [] c.current_field = "Username" -> "UseSSHKey"
          [] c.current_field = "UseSSHKey" ->
                IF c.use_ssh_key THEN "SSHKeyPath" ELSE "Password"
          [] c.current_field = "Password" -> "Host"
          [] c.current_field = "SSHKeyPath" -> "Host"]

previous_field(c) ==
    [c EXCEPT !.current_field =
        CASE c.current_field = "Host" ->
                IF c.use_ssh_key THEN "SSHKeyPath" ELSE "Password"
          [] c.current_field = "Username" -> "Host"
          [] c.current_field = "UseSSHKey" -> "Username"
          [] c.current_field = "Password" -> "UseSSHKey"
          [] c.current_field = "SSHKeyPath" -> "UseSSHKey"]

handle_char(c, ch) ==
    CASE c.current_field = "Host" -> [c EXCEPT !.host = Append(@, ch)]
      [] c.current_field = "Username" -> [c EXCEPT !.username = Append(@, ch)]
      [] c.current_field = "Password" ->
            IF ~c.use_ssh_key THEN [c EXCEPT !.password = Append(@, ch)] ELSE c
      [] c.current_field = "SSHKeyPath" ->
            IF c.use_ssh_key THEN [c EXCEPT !.ssh_key_path = Append(@, ch)] ELSE c
      [] c.current_field = "UseSSHKey" -> c

\* String::pop: drops the last character, nothing on the empty string
Pop(s) == IF s = <<>> THEN s ELSE SubSeq(s, 1, Len(s) - 1)

handle_backspace(c) ==
    CASE c.current_field = "Host" -> [c EXCEPT !.host = Pop(@)]
      [] c.current_field = "Username" -> [c EXCEPT !.username = Pop(@)]
      [] c.current_field = "Password" ->
            IF ~c.use_ssh_key THEN [c EXCEPT !.password = Pop(@)] ELSE c
      [] c.current_field = "SSHKeyPath" ->
            IF c.use_ssh_key THEN [c EXCEPT !.ssh_key_path = Pop(@)] ELSE c
      [] c.current_field = "UseSSHKey" -> c

\* a toggle that works from every field
toggle_ssh_key_AnyField(c) ==
    [c EXCEPT !.use_ssh_key = ~c.use_ssh_key,
              !.password = IF ~c.use_ssh_key THEN <<>> ELSE @]

\* a toggle that keeps the password when it switches to key mode
toggle_ssh_key_KeepsPassword(c) ==
    IF c.current_field = "UseSSHKey"
    THEN [c EXCEPT !.use_ssh_key = ~c.use_ssh_key]
    ELSE c

toggle_ssh_key(c) ==
    IF c.current_field = "UseSSHKey"
    THEN [c EXCEPT !.use_ssh_key = ~c.use_ssh_key,
                   !.password = IF ~c.use_ssh_key THEN <<>> ELSE @]
    ELSE c

\* an is_valid that forgets the secret
is_valid_NoSecretCheck(c) ==
    /\ c.host # <<>>
    /\ c.username # <<>>

is_valid(c) ==
    /\ c.host # <<>>
    /\ c.username # <<>>
    /\ (c.use_ssh_key \/ c.password # <<>>)

\* the text field a character typed now would be pushed to (<<>> when none)
ActiveText(c) ==
    CASE c.current_field = "Host" -> c.host
      [] c.current_field = "Username" -> c.username
      [] c.current_field = "Password" -> IF ~c.use_ssh_key THEN c.password ELSE <<>>
      [] c.current_field = "SSHKeyPath" -> IF c.use_ssh_key THEN c.ssh_key_path ELSE <<>>
      [] c.current_field = "UseSSHKey" -> <<>>

\* "*".repeat(n)
Stars(n) == [j \in 1..n |-> "*"]

\* a form that prints the password as typed
render_config_screen_Plain(c) ==
    [host |-> <<"Host: ", c.host>>,
     username |-> <<"Username: ", c.username>>,
     checkbox |-> IF c.use_ssh_key THEN "[X]" ELSE "[ ]",
     secret |-> IF c.use_ssh_key
                THEN <<"SSH Key Path: ", c.ssh_key_path>>
                ELSE <<"Password: ", c.password>>,
     highlighted |->
        {c.current_field} \cap
            ({"Host", "Username", "UseSSHKey"}
                \cup (IF c.use_ssh_key THEN {"SSHKeyPath"} ELSE {"Password"})),
     status |-> IF c.error_message # None THEN <<"Error: ", c.error_message[1]>>
                ELSE IF is_valid(c) THEN <<"Press Enter to connect">>
                ELSE <<"Fill in all required fields">>]

\* what render_config_screen draws: the text of each row, the row in the
\* highlight style, the status line
render_config_screen(c) ==
    [host |-> <<"Host: ", c.host>>,
     username |-> <<"Username: ", c.username>>,
     checkbox |-> IF c.use_ssh_key THEN "[X]" ELSE "[ ]",
     secret |-> IF c.use_ssh_key
                THEN <<"SSH Key Path: ", c.ssh_key_path>>
                ELSE <<"Password: ", Stars(Len(c.password))>>,
     highlighted |->
        {c.current_field} \cap
            ({"Host", "Username", "UseSSHKey"}
                \cup (IF c.use_ssh_key THEN {"SSHKeyPath"} ELSE {"Password"})),
     status |-> IF c.error_message # None THEN <<"Error: ", c.error_message[1]>>
                ELSE IF is_valid(c) THEN <<"Press Enter to connect">>
                ELSE <<"Fill in all required fields">>]

(***************************************************************************)
(* LoadingScreen                                                           *)
(***************************************************************************)
LoadingScreen_new == [progress |-> 0, direction |-> 1]

\* an animation that turns one step after the end of the bar
LoadingScreen_update_Overshoot(l) ==
    IF l.direction > 0
    THEN [progress |-> l.progress + 2,
          direction |-> IF l.progress + 2 > 100 THEN -1 ELSE l.direction]
    ELSE IF l.progress <= 2
         THEN [progress |-> 0, direction |-> 1]
         ELSE [progress |-> l.progress - 2, direction |-> l.direction]

LoadingScreen_update(l) ==
    IF l.direction > 0
    THEN [progress |-> l.progress + 2,
          direction |-> IF l.progress + 2 >= 100 THEN -1 ELSE l.direction]
    ELSE IF l.progress <= 2
         THEN [progress |-> 0, direction |-> 1]
         ELSE [progress |-> l.progress - 2, direction |-> l.direction]

(***************************************************************************)
(* App: sorting, history, selection                                        *)
(***************************************************************************)
SortField(u, by) == IF by = "Cpu" THEN u.cpu_percent ELSE u.ram_mb

\* an insertion that puts a new element before the elements equal to it
RECURSIVE InsertDesc_Unstable(_, _, _)
InsertDesc_Unstable(sorted, u, by) ==
    IF sorted = <<>> THEN <<u>>
    ELSE IF SortField(Head(sorted), by) > SortField(u, by)
         THEN <<Head(sorted)>> \o InsertDesc_Unstable(Tail(sorted), u, by)
         ELSE <<u>> \o sorted

\* slice::sort_by with |a, b| b.key.partial_cmp(&a.key): descending and stable
RECURSIVE InsertDesc(_, _, _)
InsertDesc(sorted, u, by) ==
    IF sorted = <<>> THEN <<u>>
    ELSE IF SortField(Head(sorted), by) >= SortField(u, by)
         THEN <<Head(sorted)>> \o InsertDesc(Tail(sorted), u, by)
         ELSE <<u>> \o sorted

RECURSIVE SortPrefix(_, _, _)
SortPrefix(s, n, by) ==
    IF n = 0 THEN <<>> ELSE InsertDesc(SortPrefix(s, n - 1, by), s[n], by)

sort_users(us, by) == SortPrefix(us, Len(us), by)

\* partial_cmp(..).unwrap() panics when one of the two values is NaN, and a sort of
\* two or more elements compares every element at least once
SortPanics(us, by) ==
    Len(us) >= 2 /\ \E n \in 1..Len(us) : SortField(us[n], by) = NaN

\* f64 addition: a NaN operand makes the sum NaN
Add(a, b) == IF a = NaN \/ b = NaN THEN NaN ELSE a + b

RECURSIVE SumCpu(_)
SumCpu(us) == IF us = <<>> THEN 0 ELSE Add(Head(us).cpu_percent, SumCpu(Tail(us)))

RECURSIVE SumRam(_)
SumRam(us) == IF us = <<>> THEN 0 ELSE Add(Head(us).ram_mb, SumRam(Tail(us)))

HistoricalData(us) == [cpu_total |-> SumCpu(us), ram_total |-> SumRam(us)]

\* a push that keeps every point
history_push_NoEviction(h, point) == Append(h, point)

\* a push that, over capacity, drops the point just pushed
history_push_EvictsNewest(h, point) ==
    LET pushed == Append(h, point)
    IN  IF Len(pushed) > MAX_HISTORY THEN SubSeq(pushed, 1, MAX_HISTORY) ELSE pushed

\* history.push(..); if history.len() > MAX_HISTORY { history.remove(0) }
history_push(h, point) ==
    LET pushed == Append(h, point)
    IN  IF Len(pushed) > MAX_HISTORY THEN Tail(pushed) ELSE pushed

\* an update_data that stores the batch in the order of the fetch
update_data_Unsorted(new_users) ==
    /\ users' = new_users
    /\ history' = history_push(history, HistoricalData(new_users))

\* an update_data that writes the new point over the last one
update_data_OverwritesLast(new_users) ==
    /\ users' = sort_users(new_users, sort_by)
    /\ history' = IF history = <<>>
                  THEN <<HistoricalData(new_users)>>
                  ELSE [history EXCEPT ![Len(history)] = HistoricalData(new_users)]

update_data(new_users) ==
    /\ users' = sort_users(new_users, sort_by)
    /\ history' = history_push(history, HistoricalData(sort_users(new_users, sort_by)))

(***************************************************************************)
(* ssh_get_user_stats                                                      *)
(***************************************************************************)
\* str::parse::<f64>().unwrap_or(0.0): f64::from_str also accepts the word "nan"
parse_or_zero(tok) ==
    IF tok[1] = "num" THEN tok[2]
    ELSE IF tok = Word("nan") THEN NaN
    ELSE 0

RECURSIVE parse_lines(_)
parse_lines(output) ==
    IF output = <<>> THEN <<>>
    ELSE LET parts == Head(output)
         IN  (IF Len(parts) >= 3
              THEN << [username |-> parts[1][2],
                       cpu_percent |-> parse_or_zero(parts[2]),
                       ram_mb |-> parse_or_zero(parts[3])] >>
              ELSE <<>>) \o parse_lines(Tail(output))

Ok(us) == [ok |-> TRUE, users |-> us, err |-> ""]
Err(e) == [ok |-> FALSE, users |-> <<>>, err |-> e]
NoResult == [ok |-> FALSE, users |-> <<>>, err |-> "-"]

\* the call did not return: the sort at the end of ssh_get_user_stats panicked
Panicked == [ok |-> FALSE, users |-> <<>>, err |-> "panicked"]

IsErr(r) == ~r.ok /\ r # Panicked

\* the results one call can return for the given authentication arguments
ssh_get_user_stats(host, user, password, ssh_key_path) ==
    IF ssh_key_path = None /\ password = None
    THEN {Err("No authentication method provided")}
    ELSE {Err(e) : e \in FailureCauses}
            \cup {IF SortPanics(parse_lines(o), "Cpu")
                  THEN Panicked
                  ELSE Ok(sort_users(parse_lines(o), "Cpu")) : o \in RemoteOutputsOf(host)}

(***************************************************************************)
(* Threads                                                                 *)
(***************************************************************************)
NoCreds == [host |-> <<>>, user |-> <<>>, password |-> None, ssh_key |-> None]

\* conn[i].cancelled (history): the user pressed cancel in the Connecting phase of
\* this submit, and the thread has not ended yet
ConnIdle == [pc |-> "idle", creds |-> NoCreds, result |-> NoResult, cancelled |-> FALSE]

\* poll[i].fails (history): failed fetches since the loop's last successful one
\* poll[i].left (history): the user left Monitoring while this loop was running
PollIdle ==
    [pc |-> "idle", creds |-> NoCreds, result |-> NoResult, fails |-> 0, left |-> FALSE]

\* the process runs until the interactive thread returns or panics
Alive == mainPc \notin {"exited", "panicked"}

Init ==
    /\ state = "Config"
    /\ config = ConfigScreen_new
    /\ loading = LoadingScreen_new
    /\ users = <<>>
    /\ history = <<>>
    /\ selected_user = 0
    /\ sort_by = "Cpu"
    /\ should_quit = FALSE
    /\ lock = Free
    /\ mainPc = "top"
    /\ conn = [i \in Attempts |-> ConnIdle]
    /\ poll = [i \in Attempts |-> PollIdle]
    /\ spawned = 0
    /\ nPolls = 0

(***************************************************************************)
(* The interactive thread: run_app's loop                                  *)
(***************************************************************************)
\* fewer than MaxConnFrames animation frames were drawn in this Connecting phase
FrameAllowed == ~(state = "Connecting" /\ loading.progress >= 2 * MaxConnFrames)

\* top of the loop after a key was handled: app.lock()
MainLockFrame ==
    /\ mainPc = "top"
    /\ lock = Free
    /\ lock' = MainThread
    /\ mainPc' = "frame"
    /\ UNCHANGED <<appVars, conn, poll, spawned, ghostVars>>

\* animation, terminal.draw, the should_quit test; the guard is dropped
MainFrame ==
    /\ mainPc = "frame"
    /\ lock = MainThread
    /\ loading' = IF state = "Connecting" THEN LoadingScreen_update(loading) ELSE loading
    /\ mainPc' = IF should_quit THEN "exited" ELSE "event"
    /\ lock' = Free
    /\ UNCHANGED <<state, config, users, history, selected_user, sort_by, should_quit,
                   conn, poll, spawned, ghostVars>>

\* event::poll(50 ms) saw no key: next iteration, app.lock()
MainNoEvent ==
    /\ mainPc = "event"
    /\ lock = Free
    /\ lock' = MainThread
    /\ mainPc' = "frame"
    /\ UNCHANGED <<appVars, conn, poll, spawned, ghostVars>>

\* app.lock().unwrap() on a poisoned mutex: the interactive thread panics
MainLockPoisoned ==
    /\ mainPc \in {"top", "event"}
    /\ lock = Poisoned
    /\ mainPc' = "panicked"
    /\ UNCHANGED <<appVars, lock, conn, poll, spawned, ghostVars>>

\* event::read returned a key: app.lock()
MainLockKey ==
    /\ mainPc = "event"
    /\ lock = Free
    /\ lock' = MainThread
    /\ mainPc' = "key"
    /\ UNCHANGED <<appVars, conn, poll, spawned, ghostVars>>

\* a capture that hands over the password and the key path together
CapturedCreds_Both(c) ==
    [host |-> c.host,
     user |-> c.username,
     password |-> Some(c.password),
     ssh_key |-> Some(c.ssh_key_path)]

\* what the spawned connect thread captures (host, user, password, ssh_key)
CapturedCreds(c) ==
    [host |-> c.host,
     user |-> c.username,
     password |-> IF c.use_ssh_key THEN None ELSE Some(c.password),
     ssh_key |-> IF c.use_ssh_key THEN Some(c.ssh_key_path) ELSE None]

\* a submit that leaves the loading animation where the last Connecting phase left it
Submit_KeepsAnimation ==
    IF is_valid(config)
    THEN /\ state' = "Connecting"
         /\ spawned' = spawned + 1
         /\ conn' = [conn EXCEPT ![spawned + 1] =
                        [pc |-> "fetch", creds |-> CapturedCreds(config),
                         result |-> NoResult, cancelled |-> FALSE]]
         /\ UNCHANGED <<config, should_quit, loading>>
    ELSE UNCHANGED <<state, loading, spawned, conn, config, should_quit>>

\* a submit that takes the error of the last attempt off the form
Submit_ClearsError ==
    IF is_valid(config)
    THEN /\ state' = "Connecting"
         /\ loading' = LoadingScreen_new
         /\ spawned' = spawned + 1
         /\ conn' = [conn EXCEPT ![spawned + 1] =
                        [pc |-> "fetch", creds |-> CapturedCreds(config),
                         result |-> NoResult, cancelled |-> FALSE]]
         /\ config' = [config EXCEPT !.error_message = None]
         /\ UNCHANGED should_quit
    ELSE UNCHANGED <<state, loading, spawned, conn, config, should_quit>>

\* KeyCode::Enter in Config
Submit ==
    IF is_valid(config)
    THEN /\ state' = "Connecting"
         /\ loading' = LoadingScreen_new
         /\ spawned' = spawned + 1
         /\ conn' = [conn EXCEPT ![spawned + 1] =
                        [pc |-> "fetch", creds |-> CapturedCreds(config),
                         result |-> NoResult, cancelled |-> FALSE]]
         /\ UNCHANGED <<config, should_quit>>
    ELSE UNCHANGED <<state, loading, spawned, conn, config, should_quit>>

\* a form on which the space bar is a character like any other
KeyConfig_SpaceTyped(k) ==
    /\ UNCHANGED <<users, history, selected_user, sort_by, poll, ghostVars>>
    /\ IF k.code = "Enter"
       THEN Submit
       ELSE /\ should_quit' = (should_quit \/ k = KeyChar("q") \/ k.code = "Esc")
            /\ config' =
                CASE k = KeyChar("q") \/ k.code = "Esc" -> config
                  [] k.code = "Tab" ->
                        IF k.shift THEN previous_field(config) ELSE next_field(config)
                  [] k.code = "Up" -> previous_field(config)
                  [] k.code = "Down" -> next_field(config)
                  [] k.code = "Char" /\ k.ch # "q" -> handle_char(config, k.ch)
                  [] k.code = "Backspace" -> handle_backspace(config)
                  [] OTHER -> config
            /\ UNCHANGED <<state, loading, spawned, conn>>

\* match key.code in AppState::Config
KeyConfig(k) ==
    /\ UNCHANGED <<users, history, selected_user, sort_by, poll, ghostVars>>
    /\ IF k.code = "Enter"
       THEN Submit
       ELSE /\ should_quit' = (should_quit \/ k = KeyChar("q") \/ k.code = "Esc")
            /\ config' =
                CASE k = KeyChar("q") \/ k.code = "Esc" -> config
                  [] k.code = "Tab" ->
                        IF k.shift THEN previous_field(config) ELSE next_field(config)
                  [] k.code = "Up" -> previous_field(config)
                  [] k.code = "Down" -> next_field(config)
                  [] k = KeyChar(" ") -> toggle_ssh_key(config)
                  [] k.code = "Char" /\ k.ch \notin {"q", " "} -> handle_char(config, k.ch)
                  [] k.code = "Backspace" -> handle_backspace(config)
                  [] OTHER -> config
            /\ UNCHANGED <<state, loading, spawned, conn>>

\* a Connecting screen on which q requests quit, as it does on the form
KeyConnecting_QuitKey(k) ==
    /\ IF k.code = "Esc"
       THEN /\ state' = "Config"
            /\ conn' = [conn EXCEPT ![spawned].cancelled = TRUE]
       ELSE UNCHANGED <<state, conn>>
    /\ should_quit' = (should_quit \/ k = KeyChar("q"))
    /\ UNCHANGED <<config, loading, users, history, selected_user, sort_by,
                   poll, spawned, ghostVars>>

\* match key.code in AppState::Connecting
KeyConnecting(k) ==
    /\ IF k.code = "Esc"
       THEN /\ state' = "Config"
            /\ conn' = [conn EXCEPT ![spawned].cancelled = TRUE]
       ELSE UNCHANGED <<state, conn>>
    /\ UNCHANGED <<config, loading, users, history, selected_user, sort_by, should_quit,
                   poll, spawned, ghostVars>>

LenUsers == Len(users)

\* the index next_user leaves, from the index and the length of the list
next_index(i, len) == IF len # 0 THEN (i + 1) % len ELSE i

\* the index previous_user leaves, from the index and the length of the list
previous_index(i, len) ==
    IF len # 0
    THEN IF i > 0 THEN i - 1 ELSE len - 1
    ELSE i

next_user == next_index(selected_user, LenUsers)

\* a previous_user that stops at the first row
previous_user_Saturating ==
    IF users # <<>>
    THEN IF selected_user > 0 THEN selected_user - 1 ELSE 0
    ELSE selected_user

previous_user == previous_index(selected_user, LenUsers)

\* history only: the running loops are marked as left behind by the user's exit
MarkLeft ==
    [i \in Attempts |->
        IF poll[i].pc \in {"tick", "locked"} THEN [poll[i] EXCEPT !.left = TRUE] ELSE poll[i]]

\* a Monitoring screen whose exit key also requests quit, as q and Esc do in Config
KeyMonitoring_ExitQuits(k) ==
    /\ UNCHANGED <<config, loading, conn, spawned, ghostVars>>
    /\ should_quit' = (should_quit \/ k = KeyChar("q") \/ k.code = "Esc")
    /\ poll' = IF k = KeyChar("q") \/ k.code = "Esc" THEN MarkLeft ELSE poll
    /\ CASE k = KeyChar("q") \/ k.code = "Esc" ->
                /\ state' = "Config"
                /\ users' = <<>>
                /\ history' = <<>>
                /\ UNCHANGED <<selected_user, sort_by>>
         [] k \in {KeyChar("c"), KeyChar("C")} ->
                /\ sort_by' = "Cpu"
                /\ users' = sort_users(users, "Cpu")
                /\ UNCHANGED <<state, history, selected_user>>
         [] k \in {KeyChar("r"), KeyChar("R")} ->
                /\ sort_by' = "Ram"
                /\ users' = sort_users(users, "Ram")
                /\ UNCHANGED <<state, history, selected_user>>
         [] k.code = "Down" ->
                /\ selected_user' = next_user
                /\ UNCHANGED <<state, users, history, sort_by>>
         [] k.code = "Up" ->
                /\ selected_user' = previous_user
                /\ UNCHANGED <<state, users, history, sort_by>>
         [] OTHER -> UNCHANGED <<state, users, history, selected_user, sort_by>>

\* a Monitoring screen whose sort keys put the selection back on the first row
KeyMonitoring_SortResetsSelection(k) ==
    /\ UNCHANGED <<config, loading, should_quit, conn, spawned, ghostVars>>
    /\ poll' = IF k = KeyChar("q") \/ k.code = "Esc" THEN MarkLeft ELSE poll
    /\ CASE k = KeyChar("q") \/ k.code = "Esc" ->
                /\ state' = "Config"
                /\ users' = <<>>
                /\ history' = <<>>
                /\ UNCHANGED <<selected_user, sort_by>>
         [] k \in {KeyChar("c"), KeyChar("C")} ->
                /\ sort_by' = "Cpu"
                /\ users' = sort_users(users, "Cpu")
                /\ selected_user' = 0
                /\ UNCHANGED <<state, history>>
         [] k \in {KeyChar("r"), KeyChar("R")} ->
                /\ sort_by' = "Ram"
                /\ users' = sort_users(users, "Ram")
                /\ selected_user' = 0
                /\ UNCHANGED <<state, history>>
         [] k.code = "Down" ->
                /\ selected_user' = next_user
                /\ UNCHANGED <<state, users, history, sort_by>>
         [] k.code = "Up" ->
                /\ selected_user' = previous_user
                /\ UNCHANGED <<state, users, history, sort_by>>
         [] OTHER -> UNCHANGED <<state, users, history, selected_user, sort_by>>

\* a Monitoring screen whose exit clears the users and keeps the history
KeyMonitoring_ExitKeepsHistory(k) ==
    /\ UNCHANGED <<config, loading, should_quit, conn, spawned, ghostVars>>
    /\ poll' = IF k = KeyChar("q") \/ k.code = "Esc" THEN MarkLeft ELSE poll
    /\ CASE k = KeyChar("q") \/ k.code = "Esc" ->
                /\ state' = "Config"
                /\ users' = <<>>
                /\ UNCHANGED <<history, selected_user, sort_by>>
         [] k \in {KeyChar("c"), KeyChar("C")} ->
                /\ sort_by' = "Cpu"
                /\ users' = sort_users(users, "Cpu")
                /\ UNCHANGED <<state, history, selected_user>>
         [] k \in {KeyChar("r"), KeyChar("R")} ->
                /\ sort_by' = "Ram"
                /\ users' = sort_users(users, "Ram")
                /\ UNCHANGED <<state, history, selected_user>>
         [] k.code = "Down" ->
                /\ selected_user' = next_user
                /\ UNCHANGED <<state, users, history, sort_by>>
         [] k.code = "Up" ->
                /\ selected_user' = previous_user
                /\ UNCHANGED <<state, users, history, sort_by>>
         [] OTHER -> UNCHANGED <<state, users, history, selected_user, sort_by>>

\* match key.code in AppState::Monitoring
KeyMonitoring(k) ==
    /\ UNCHANGED <<config, loading, should_quit, conn, spawned, ghostVars>>
    /\ poll' = IF k = KeyChar("q") \/ k.code = "Esc" THEN MarkLeft ELSE poll
    /\ CASE k = KeyChar("q") \/ k.code = "Esc" ->
                /\ state' = "Config"
                /\ users' = <<>>
                /\ history' = <<>>
                /\ UNCHANGED <<selected_user, sort_by>>
         [] k \in {KeyChar("c"), KeyChar("C")} ->
                /\ sort_by' = "Cpu"
                /\ users' = sort_users(users, "Cpu")
                /\ UNCHANGED <<state, history, selected_user>>
         [] k \in {KeyChar("r"), KeyChar("R")} ->
                /\ sort_by' = "Ram"
                /\ users' = sort_users(users, "Ram")
                /\ UNCHANGED <<state, history, selected_user>>
         [] k.code = "Down" ->
                /\ selected_user' = next_user
                /\ UNCHANGED <<state, users, history, sort_by>>
         [] k.code = "Up" ->
                /\ selected_user' = previous_user
                /\ UNCHANGED <<state, users, history, sort_by>>
         [] OTHER -> UNCHANGED <<state, users, history, selected_user, sort_by>>

\* the inputs the model leaves out: a character typed into a full field, a submit
\* that would need more than MaxAttempts connect threads
KeyInBounds(k) ==
    \/ state # "Config"
    \/ /\ k.code = "Char" /\ k.ch \notin {"q", " "} => Len(ActiveText(config)) < MaxLen
       /\ k.code = "Enter" /\ is_valid(config) => spawned < MaxAttempts

\* set_sort assigns sort_by, and the sort that follows panics in the interactive
\* thread (users is left in an order the sort does not specify)
SetSortPanics(k) ==
    /\ state = "Monitoring"
    /\ \/ k \in {KeyChar("c"), KeyChar("C")} /\ SortPanics(users, "Cpu")
       \/ k \in {KeyChar("r"), KeyChar("R")} /\ SortPanics(users, "Ram")

\* the key is dispatched on the state seen under the lock; the guard is dropped
HandleKey(k) ==
    /\ mainPc = "key"
    /\ lock = MainThread
    /\ KeyInBounds(k)
    /\ CASE state = "Config" -> KeyConfig(k)
         [] state = "Connecting" -> KeyConnecting(k)
         [] state = "Monitoring" -> KeyMonitoring(k)
    /\ IF SetSortPanics(k)
       THEN mainPc' = "panicked" /\ lock' = Poisoned
       ELSE mainPc' = "top" /\ lock' = Free

(***************************************************************************)
(* The connect thread of one submit                                        *)
(***************************************************************************)
\* ssh_get_user_stats returns (no lock is held during the call); the thread then
\* takes the lock in the arm of its result.  The thread ends in a panic when the
\* call panics, or when lock() finds the mutex poisoned.
ConnFetch(i) ==
    /\ Alive
    /\ conn[i].pc = "fetch"
    /\ \E r \in ssh_get_user_stats(conn[i].creds.host, conn[i].creds.user,
                                      conn[i].creds.password, conn[i].creds.ssh_key) :
            IF r = Panicked \/ lock = Poisoned
            THEN /\ conn' = [conn EXCEPT ![i].pc = "dead"]
                 /\ lock' = lock
            ELSE /\ lock = Free
                 /\ conn' = [conn EXCEPT ![i].pc = "locked", ![i].result = r]
                 /\ lock' = ConnThread(i)
    /\ UNCHANGED <<appVars, mainPc, poll, spawned, ghostVars>>

\* Ok(users): update_data, Monitoring, error cleared, the polling loop is spawned
ConnMergeOk(i) ==
    /\ update_data(conn[i].result.users)
    /\ state' = "Monitoring"
    /\ config' = [config EXCEPT !.error_message = None]
    /\ poll' = [poll EXCEPT ![i] =
                    [PollIdle EXCEPT !.pc = "tick", !.creds = conn[i].creds]]

\* Err(e): back to Config with the error message
ConnMergeErr(i) ==
    /\ state' = "Config"
    /\ config' = [config EXCEPT !.error_message =
                        Some(<<"Connection failed: ", conn[i].result.err>>)]
    /\ UNCHANGED <<users, history, poll>>

\* the arm of the result, under the lock; the thread ends.  When the sort of
\* update_data panics, users holds the batch, nothing else of the arm has run and
\* the guard is dropped by the unwinding: the mutex is poisoned.
ConnMerge(i) ==
    /\ Alive
    /\ conn[i].pc = "locked"
    /\ lock = ConnThread(i)
    /\ IF conn[i].result.ok /\ SortPanics(conn[i].result.users, sort_by)
       THEN /\ users' = conn[i].result.users
            /\ conn' = [conn EXCEPT ![i] = [ConnIdle EXCEPT !.pc = "dead"]]
            /\ lock' = Poisoned
            /\ UNCHANGED <<state, config, history, poll>>
       ELSE /\ IF conn[i].result.ok THEN ConnMergeOk(i) ELSE ConnMergeErr(i)
            /\ conn' = [conn EXCEPT ![i] = [ConnIdle EXCEPT !.pc = "done"]]
            /\ lock' = Free
    /\ UNCHANGED <<loading, selected_user, sort_by, should_quit, mainPc, spawned, nPolls>>

(***************************************************************************)
(* The polling loop of one connection                                      *)
(***************************************************************************)
\* a loop whose failed tick takes the path of a failed initial fetch
PollFetchErr_Surfaced(i) ==
    /\ Alive
    /\ poll[i].pc = "tick"
    /\ \E r \in ssh_get_user_stats(poll[i].creds.host, poll[i].creds.user,
                                      poll[i].creds.password, poll[i].creds.ssh_key) :
            /\ ~r.ok
            /\ config' = [config EXCEPT !.error_message =
                                Some(<<"Connection failed: ", r.err>>)]
    /\ state' = "Config"
    /\ poll' = [poll EXCEPT ![i].fails = @ + 1]
    /\ nPolls' = nPolls + 1
    /\ UNCHANGED <<loading, users, history, selected_user, sort_by, should_quit,
                   lock, mainPc, conn, spawned>>

\* a loop that gives up at its first failed tick
PollFetchErr_Break(i) ==
    /\ Alive
    /\ poll[i].pc = "tick"
    /\ \E r \in ssh_get_user_stats(poll[i].creds.host, poll[i].creds.user,
                                      poll[i].creds.password, poll[i].creds.ssh_key) : ~r.ok
    /\ poll' = [poll EXCEPT ![i].fails = @ + 1, ![i].pc = "done"]
    /\ nPolls' = nPolls + 1
    /\ UNCHANGED <<appVars, lock, mainPc, conn, spawned>>

\* sleep(2 s), then a fetch that fails: eprintln, next iteration
PollFetchErr(i) ==
    /\ Alive
    /\ poll[i].pc = "tick"
    /\ \E r \in ssh_get_user_stats(poll[i].creds.host, poll[i].creds.user,
                                      poll[i].creds.password, poll[i].creds.ssh_key) : IsErr(r)
    /\ poll' = [poll EXCEPT ![i].fails = @ + 1]
    /\ nPolls' = nPolls + 1
    /\ UNCHANGED <<appVars, lock, mainPc, conn, spawned>>

\* sleep(2 s), then a fetch that reaches the parsing of the output: the thread
\* takes the lock, or ends in a panic when the call panics or the mutex is poisoned
PollFetchOk(i) ==
    /\ Alive
    /\ poll[i].pc = "tick"
    /\ \E r \in ssh_get_user_stats(poll[i].creds.host, poll[i].creds.user,
                                      poll[i].creds.password, poll[i].creds.ssh_key) :
            /\ ~IsErr(r)
            /\ IF r = Panicked \/ lock = Poisoned
               THEN /\ poll' = [poll EXCEPT ![i].pc = "dead"]
                    /\ lock' = lock
               ELSE /\ lock = Free
                    /\ poll' = [poll EXCEPT ![i].pc = "locked", ![i].result = r]
                    /\ lock' = PollThread(i)
    /\ nPolls' = nPolls + 1
    /\ UNCHANGED <<appVars, mainPc, conn, spawned>>

\* a loop that merges without looking at the state
PollMerge_NoStateCheck(i) ==
    /\ Alive
    /\ poll[i].pc = "locked"
    /\ lock = PollThread(i)
    /\ update_data(poll[i].result.users)
    /\ poll' = [poll EXCEPT ![i].pc = "tick", ![i].result = NoResult, ![i].fails = 0]
    /\ lock' = Free
    /\ UNCHANGED <<state, config, loading, selected_user, sort_by, should_quit,
                   mainPc, conn, spawned, nPolls>>

\* a loop whose guard outlives the merge, into the next sleep and fetch
PollMerge_KeepsGuard(i) ==
    /\ Alive
    /\ poll[i].pc = "locked"
    /\ lock = PollThread(i)
    /\ IF state = "Monitoring"
       THEN /\ update_data(poll[i].result.users)
            /\ poll' = [poll EXCEPT ![i].pc = "tick", ![i].result = NoResult,
                                    ![i].fails = 0]
            /\ lock' = PollThread(i)
       ELSE /\ poll' = [poll EXCEPT ![i] = [PollIdle EXCEPT !.pc = "done"]]
            /\ lock' = Free
            /\ UNCHANGED <<users, history>>
    /\ UNCHANGED <<state, config, loading, selected_user, sort_by, should_quit,
                   mainPc, conn, spawned, nPolls>>

\* a loop that goes back to sleep with the merged result still pending
PollMerge_KeepsResult(i) ==
    /\ Alive
    /\ poll[i].pc = "locked"
    /\ lock = PollThread(i)
    /\ IF state = "Monitoring"
       THEN /\ update_data(poll[i].result.users)
            /\ poll' = [poll EXCEPT ![i].pc = "tick", ![i].fails = 0]
       ELSE /\ poll' = [poll EXCEPT ![i] = [PollIdle EXCEPT !.pc = "done"]]
            /\ UNCHANGED <<users, history>>
    /\ lock' = Free
    /\ UNCHANGED <<state, config, loading, selected_user, sort_by, should_quit,
                   mainPc, conn, spawned, nPolls>>

\* under the lock: merge when the state is Monitoring, break otherwise.  When
\* the sort of update_data panics, users holds the batch, no point is pushed and
\* the guard is dropped by the unwinding: the mutex is poisoned.
PollMerge(i) ==
    /\ Alive
    /\ poll[i].pc = "locked"
    /\ lock = PollThread(i)
    /\ IF state = "Monitoring"
       THEN IF SortPanics(poll[i].result.users, sort_by)
            THEN /\ users' = poll[i].result.users
                 /\ poll' = [poll EXCEPT ![i].pc = "dead", ![i].result = NoResult]
                 /\ lock' = Poisoned
                 /\ UNCHANGED history
            ELSE /\ update_data(poll[i].result.users)
                 /\ poll' = [poll EXCEPT ![i].pc = "tick", ![i].result = NoResult,
                                         ![i].fails = 0]
                 /\ lock' = Free
       ELSE /\ poll' = [poll EXCEPT ![i] = [PollIdle EXCEPT !.pc = "done"]]
            /\ lock' = Free
            /\ UNCHANGED <<users, history>>
    /\ UNCHANGED <<state, config, loading, selected_user, sort_by, should_quit,
                   mainPc, conn, spawned, nPolls>>

(***************************************************************************)
(* Specifications                                                          *)
(***************************************************************************)
\* the interactive thread, drawing at most MaxConnFrames animation frames per
\* Connecting phase
MainStep ==
    \/ MainLockFrame /\ FrameAllowed
    \/ MainFrame
    \/ MainNoEvent /\ FrameAllowed
    \/ MainLockKey

ConnStep == \E i \in Attempts : ConnFetch(i) \/ ConnMerge(i)

\* the polling loops of a run perform at most MaxPolls fetches
PollStep ==
    \E i \in Attempts :
        \/ PollFetchErr(i) /\ nPolls' <= MaxPolls
        \/ PollFetchOk(i) /\ nPolls' <= MaxPolls
        \/ PollMerge(i)

\* the whole program, from App::new()
Next ==
    \/ MainStep
    \/ MainLockPoisoned
    \/ ConnStep
    \/ PollStep
    \/ \E k \in AllKeys : HandleKey(k)

Spec == Init /\ [][Next]_vars

\* The connection life cycle.  The form already holds valid password credentials
\* (typed as: a, Tab, a, Tab, Tab, a) and the user only submits, cancels, leaves
\* and quits.
FilledForm ==
    [ConfigScreen_new EXCEPT !.host = <<"a">>, !.username = <<"a">>,
                             !.password = <<"a">>, !.current_field = "Password"]

InitSession ==
    /\ state = "Config"
    /\ config = FilledForm
    /\ loading = LoadingScreen_new
    /\ users = <<>>
    /\ history = <<>>
    /\ selected_user = 0
    /\ sort_by = "Cpu"
    /\ should_quit = FALSE
    /\ lock = Free
    /\ mainPc = "top"
    /\ conn = [i \in Attempts |-> ConnIdle]
    /\ poll = [i \in Attempts |-> PollIdle]
    /\ spawned = 0
    /\ nPolls = 0

NextSession ==
    \/ MainStep
    \/ ConnStep
    \/ PollStep
    \/ \E k \in SessionKeys : HandleKey(k) /\ spawned' <= MaxSessions

SpecSession == InitSession /\ [][NextSession]_vars

\* Repeated connection attempts: as SpecSession with up to MaxAttempts submits,
\* all of it played before the first 2 s sleep of any polling loop is over.
NextRetry == MainStep \/ ConnStep \/ \E k \in SessionKeys : HandleKey(k)

SpecRetry == InitSession /\ [][NextRetry]_vars

\* Reconnecting: as SpecRetry, with a user who also changes the sort key while
\* monitoring, so that a later connection starts with either sort key.  The user
\* leaves the form as typed (c and r are pressed on the monitoring screen only).
ReconnectKeys == SessionKeys \cup {KeyChar("c"), KeyChar("r")}

NextReconnect ==
    \/ MainStep
    \/ ConnStep
    \/ \E k \in ReconnectKeys : HandleKey(k) /\ spawned' <= MaxSessions /\ config' = config

SpecReconnect == InitSession /\ [][NextReconnect]_vars

\* The monitoring screen of one connection to the quiet host.  The form holds valid
\* password credentials (typed as: a, a, Tab, a, Tab, Tab, a); the user submits
\* once and leaves the form as typed, and on the monitoring screen changes the sort
\* key, moves the selection and leaves.
SelectForm ==
    [ConfigScreen_new EXCEPT !.host = QuietHost, !.username = <<"a">>,
                             !.password = <<"a">>, !.current_field = "Password"]

SelectKeys ==
    {KeyEnter, KeyEsc, KeyChar("q"), KeyChar("c"), KeyChar("r"), KeyUp, KeyDown, KeyOther}

InitSelect ==
    /\ state = "Config"
    /\ config = SelectForm
    /\ loading = LoadingScreen_new
    /\ users = <<>>
    /\ history = <<>>
    /\ selected_user = 0
    /\ sort_by = "Cpu"
    /\ should_quit = FALSE
    /\ lock = Free
    /\ mainPc = "top"
    /\ conn = [i \in Attempts |-> ConnIdle]
    /\ poll = [i \in Attempts |-> PollIdle]
    /\ spawned = 0
    /\ nPolls = 0

\* the first submit of the run, or no submit at all
FirstSubmit == spawned = 0 \/ spawned' = spawned

NextSelect ==
    \/ MainStep
    \/ ConnStep
    \/ \E i \in Attempts :
            \/ PollFetchErr(i) /\ nPolls' <= MaxTicks
            \/ PollFetchOk(i) /\ nPolls' <= MaxTicks
            \/ PollMerge(i)
    \/ \E k \in SelectKeys : HandleKey(k) /\ FirstSubmit /\ config' = config

SpecSelect == InitSelect /\ [][NextSelect]_vars

\* The credential form, from App::new(): the user types a, toggles the auth mode,
\* moves between the fields, erases, submits once, cancels and quits, and after
\* the submit presses keys that leave the form as it is.  The remote host does not
\* answer within the run: the fetch of the submit stays in flight.
FormKeys ==
    {KeyEnter, KeyEsc, KeyTab, KeyShiftTab, KeyUp, KeyDown, KeyBackspace, KeyOther,
     KeyChar("a"), KeyChar(" "), KeyChar("q")}

NextForm ==
    \/ MainStep
    \/ \E k \in FormKeys : HandleKey(k) /\ FirstSubmit /\ (spawned = 0 \/ config' = config)

SpecForm == Init /\ [][NextForm]_vars

\* A long Monitoring session: one submit, then the polling loop ticks HistoryTicks
\* times, every fetch succeeds, and the remote host prints OutputA at the odd ticks
\* and OutputB at the even ones.  The user may leave the session at any moment.
ScheduledBatch(n) ==
    sort_users(parse_lines(IF n % 2 = 1 THEN OutputA ELSE OutputB), "Cpu")

NextHistory ==
    \/ MainStep
    \/ ConnStep
    \/ \E i \in Attempts :
            \/ /\ PollFetchOk(i)
               /\ nPolls' <= HistoryTicks
               /\ poll'[i].result = Ok(ScheduledBatch(nPolls'))
            \/ PollMerge(i)
    \/ \E k \in {KeyEnter, KeyEsc} : HandleKey(k) /\ FirstSubmit

SpecHistory == InitSession /\ [][NextHistory]_vars

\* One session under either authentication mode.  From the password form the user
\* submits once, leaves and quits, and while the form is shown moves up to the
\* key-mode field and toggles it with the space bar (which clears the password);
\* the background ticks of the session run with what its submit captured.
AuthKeys == {KeyEnter, KeyEsc, KeyChar("q"), KeyUp, KeyChar(" ")}

NextAuth ==
    \/ MainStep
    \/ ConnStep
    \/ \E i \in Attempts :
            \/ PollFetchErr(i) /\ nPolls' <= MaxTicks
            \/ PollFetchOk(i) /\ nPolls' <= MaxTicks
            \/ PollMerge(i)
    \/ \E k \in AuthKeys :
            /\ HandleKey(k)
            /\ FirstSubmit
            /\ config'.current_field \in {"Password", "UseSSHKey"}

SpecAuth == InitSession /\ [][NextAuth]_vars

\* One connection to the odd host.  The form holds valid password credentials
\* (typed as: c, Tab, a, Tab, Tab, a); the user submits once and on the monitoring
\* screen changes the sort key; every fetch reaches the host.
OddForm ==
    [ConfigScreen_new EXCEPT !.host = OddHost, !.username = <<"a">>,
                             !.password = <<"a">>, !.current_field = "Password"]

OddKeys == {KeyEnter, KeyChar("c"), KeyChar("r")}

InitOdd ==
    /\ state = "Config"
    /\ config = OddForm
    /\ loading = LoadingScreen_new
    /\ users = <<>>
    /\ history = <<>>
    /\ selected_user = 0
    /\ sort_by = "Cpu"
    /\ should_quit = FALSE
    /\ lock = Free
    /\ mainPc = "top"
    /\ conn = [i \in Attempts |-> ConnIdle]
    /\ poll = [i \in Attempts |-> PollIdle]
    /\ spawned = 0
    /\ nPolls = 0

NextOdd ==
    \/ MainStep
    \/ MainLockPoisoned
    \/ ConnStep
    \/ \E i \in Attempts :
            \/ PollFetchOk(i) /\ nPolls' <= MaxTicks
            \/ PollMerge(i)
    \/ \E k \in OddKeys : HandleKey(k) /\ FirstSubmit /\ config' = config

SpecOdd == InitOdd /\ [][NextOdd]_vars

\* The password field.  Host and username are typed (a, Tab, a, Tab, Tab) and the
\* password field is active; the user types a and c, erases, submits once,
\* cancels and quits.  The remote host does not answer within the run.
SecretForm ==
    [ConfigScreen_new EXCEPT !.host = <<"a">>, !.username = <<"a">>,
                             !.current_field = "Password"]

SecretKeys == {KeyChar("a"), KeyChar("c"), KeyBackspace, KeyEnter, KeyEsc}

\* the passwords of at most n characters the user of SpecSecret can type
RECURSIVE Secrets(_)
Secrets(n) ==
    IF n = 0 THEN {<<>>}
    ELSE Secrets(n - 1)
            \cup {Append(s, ch) : s \in {t \in Secrets(n - 1) : Len(t) = n - 1},
                                 ch \in {"a", "c"}}

InitSecret ==
    /\ state = "Config"
    /\ config = SecretForm
    /\ loading = LoadingScreen_new
    /\ users = <<>>
    /\ history = <<>>
    /\ selected_user = 0
    /\ sort_by = "Cpu"
    /\ should_quit = FALSE
    /\ lock = Free
    /\ mainPc = "top"
    /\ conn = [i \in Attempts |-> ConnIdle]
    /\ poll = [i \in Attempts |-> PollIdle]
    /\ spawned = 0
    /\ nPolls = 0

NextSecret ==
    \/ MainStep
    \/ \E k \in SecretKeys : HandleKey(k) /\ FirstSubmit /\ (spawned = 0 \/ config' = config)

SpecSecret == InitSecret /\ [][NextSecret]_vars

\* Attempts with edits in between.  From the password form the user submits up to
\* MaxSessions times, cancels, leaves, quits, and types and erases characters of
\* the password; a fetch fails or succeeds, and no background tick happens within
\* the run.
ErrorKeys == {KeyEnter, KeyEsc, KeyBackspace, KeyChar("a")}

NextError ==
    \/ MainStep
    \/ ConnStep
    \/ \E k \in ErrorKeys : HandleKey(k) /\ spawned' <= MaxSessions

SpecError == InitSession /\ [][NextError]_vars

\* Long Connecting phases.  From the password form the user submits up to
\* MaxSessions times and cancels; the remote host does not answer within the run,
\* and the interactive thread draws frame after frame.
LoadingKeys == {KeyEnter, KeyEsc}

NextLoading ==
    \/ MainLockFrame
    \/ MainFrame
    \/ MainNoEvent
    \/ MainLockKey
    \/ \E k \in LoadingKeys : HandleKey(k) /\ spawned' <= MaxSessions

SpecLoading == InitSession /\ [][NextLoading]_vars

\* FilledForm is a state of the program
FilledFormReached == config = FilledForm /\ state = "Config" /\ mainPc = "top"

(***************************************************************************)
(* Steps, told by what they change                                         *)
(***************************************************************************)
\* connect thread i runs the arm of its result
ConnMergeStep(i) == conn[i].pc = "locked" /\ conn'[i].pc = "done"

\* polling loop i completes a failed tick
PollErrStep(i) == poll[i].pc = "tick" /\ poll'[i].fails = poll[i].fails + 1

\* polling loop i handles a successful fetch under the lock (merge or break)
PollOkStep(i) == poll[i].pc = "locked" /\ poll'[i].pc # "locked"

LoopRunning(i) == poll[i].pc \in {"tick", "locked"}

\* the same users, whatever their order
SameUsers(a, b) ==
    /\ Len(a) = Len(b)
    /\ \A u \in {a[n] : n \in 1..Len(a)} \cup {b[n] : n \in 1..Len(b)} :
            Cardinality({n \in 1..Len(a) : a[n] = u}) = Cardinality({n \in 1..Len(b) : b[n] = u})

(***************************************************************************)
(* Claims                                                                  *)
(***************************************************************************)

\* C1: when the user cancelled a submit and the workflow still shows the credential
\* form, a success of that submit's initial fetch leaves the workflow at Config.
C1_CancelPrecedence ==
    [][\A i \in Attempts :
            (ConnMergeStep(i) /\ conn[i].result.ok /\ conn[i].cancelled /\ state = "Config")
                => state' = "Config"]_vars

\* C2: at most one polling loop thread is alive (sleeping, fetching or merging) at a time.
C2_AtMostOneLoop ==
    Alive => Cardinality({i \in Attempts : LoopRunning(i)}) <= 1

\* C3: a polling loop that was running when the user left Monitoring never merges
\* a result again, whatever connection is monitored by then.
C3_NoStaleMerge ==
    [][\A i \in Attempts :
            (PollOkStep(i) /\ poll[i].left) => (users' = users /\ history' = history)]_vars

\* C4: while the workflow is out of Monitoring, a polling loop that completes a tick,
\* with a failed fetch or with a successful one, has exited after it.
C4_ExitAtNextTick ==
    [][\A i \in Attempts :
            ((PollErrStep(i) \/ PollOkStep(i)) /\ state # "Monitoring")
                => poll'[i].pc = "done"]_vars

\* C5: once should_quit is set, a polling loop that takes the lock terminates,
\* also when the workflow is Monitoring.
C5_StopSignalObserved ==
    [][\A i \in Attempts : (PollOkStep(i) /\ should_quit) => poll'[i].pc = "done"]_vars

\* C6: a successful background fetch handled while the workflow is not Monitoring is
\* dropped: users, history, selected_user, sort_by, state and error_message stay as
\* they were (and the loop ends).
C6_LateResultDiscarded ==
    [][\A i \in Attempts :
            (PollOkStep(i) /\ state # "Monitoring")
                => /\ users' = users
                   /\ history' = history
                   /\ selected_user' = selected_user
                   /\ sort_by' = sort_by
                   /\ state' = state
                   /\ config'.error_message = config.error_message
                   /\ poll'[i].pc = "done"]_vars

C6_Witness ==
    \E i \in Attempts : poll[i].pc = "done" /\ state = "Config" /\ Alive

\* C7: a failed background tick changes no field of the shared App: the state is not
\* transitioned, users and history are neither cleared nor modified, and
\* config.error_message is not set.
C7_FailedTickChangesNothing ==
    [][\A i \in Attempts :
            PollErrStep(i)
                => /\ state' = state
                   /\ users' = users
                   /\ history' = history
                   /\ config' = config
                   /\ loading' = loading
                   /\ selected_user' = selected_user
                   /\ sort_by' = sort_by
                   /\ should_quit' = should_quit]_vars

C7_Witness ==
    \E i \in Attempts :
        /\ poll[i].fails > 0
        /\ state = "Monitoring"
        /\ users # <<>>
        /\ history # <<>>
        /\ config.error_message = None

\* C8: a failed tick leaves the polling loop ticking, and a successful tick handled
\* while the state is Monitoring is merged, however many failed ticks preceded it:
\* users become the fetched batch, one point with the batch's sums is appended to
\* history, and the loop goes on.
C8_TransientFailuresSurvived ==
    [][\A i \in Attempts :
            /\ PollErrStep(i) => poll'[i].pc = "tick"
            /\ (PollOkStep(i) /\ state = "Monitoring")
                => /\ SameUsers(users', poll[i].result.users)
                   /\ Len(history) < MAX_HISTORY
                        => history' = Append(history,
                                [cpu_total |-> SumCpu(poll[i].result.users),
                                 ram_total |-> SumRam(poll[i].result.users)])
                   /\ state' = "Monitoring"
                   /\ poll'[i].pc = "tick"]_vars

\* one loop, MaxPolls fetches, a single merge, and the last fetch succeeded: every
\* fetch before the merged one failed
C8_Witness ==
    /\ spawned = 1
    /\ nPolls = MaxPolls
    /\ MaxPolls >= 2
    /\ poll[1].pc = "tick"
    /\ poll[1].fails = 0
    /\ state = "Monitoring"
    /\ Len(history) = 2
    /\ history[2] = HistoricalData(users)

\* C9: the workflow changes only along Config -> Connecting, Connecting -> Monitoring,
\* Connecting -> Config and Monitoring -> Config, and Monitoring is left only by a
\* key handled by the interactive thread.
C9_WorkflowEdges ==
    [][/\ state' # state =>
            <<state, state'>> \in {<<"Config", "Connecting">>, <<"Connecting", "Monitoring">>,
                                   <<"Connecting", "Config">>, <<"Monitoring", "Config">>}
       /\ (state = "Monitoring" /\ state' # "Monitoring") => mainPc = "key"]_vars

\* C10: in every step in which the workflow becomes Monitoring, history ends up with
\* exactly one point, the one of the batch that users now holds.
C10_FreshSeries ==
    [][(state # "Monitoring" /\ state' = "Monitoring")
            => /\ Len(history') = 1
               /\ history'[1] = HistoricalData(users')]_vars


\* the credential fields of the form
Credentials(c) == <<c.host, c.username, c.password, c.use_ssh_key, c.ssh_key_path>>

\* C11: q or Esc handled in Monitoring sets the workflow to Config and empties users
\* and history; the credential fields, sort_by and should_quit stay as they were.
C11_MonitoringExit ==
    [][\A k \in {KeyChar("q"), KeyEsc} :
            (HandleKey(k) /\ state = "Monitoring")
                => /\ state' = "Config"
                   /\ users' = <<>>
                   /\ history' = <<>>
                   /\ Credentials(config') = Credentials(config)
                   /\ sort_by' = sort_by
                   /\ should_quit' = should_quit]_vars

\* the user left a monitored connection that was sorted by RAM, and did not quit
C11_Witness ==
    /\ state = "Config"
    /\ mainPc = "top"
    /\ users = <<>>
    /\ history = <<>>
    /\ sort_by = "Ram"
    /\ ~should_quit
    /\ \E i \in Attempts : poll[i].left


\* descending in the field of the sort key
Descending(us, by) ==
    \A n \in 1..(Len(us) - 1) : SortField(us[n], by) >= SortField(us[n + 1], by)

\* [(alice, 12.5, 200.0), (bob, 3.0, 50.0)]
ExampleBatch ==
    << [username |-> "alice", cpu_percent |-> 1250, ram_mb |-> 20000],
       [username |-> "bob", cpu_percent |-> 300, ram_mb |-> 5000] >>

\* C12: when the initial fetch of a submit succeeds while the state is still
\* Connecting, the state becomes Monitoring, error_message is cleared, users is the
\* batch in descending order of the active sort key, one point with the batch's cpu
\* and ram sums is appended to history, and exactly one polling loop is started; for
\* the batch alice 12.5/200.0, bob 3.0/50.0 and an empty history: users alice, bob
\* and one point with totals 15.5 and 250.0.
C12_InitialSuccess ==
    [][\A i \in Attempts :
            (ConnMergeStep(i) /\ conn[i].result.ok /\ state = "Connecting")
                => /\ state' = "Monitoring"
                   /\ config'.error_message = None
                   /\ SameUsers(users', conn[i].result.users)
                   /\ Descending(users', sort_by)
                   /\ Len(history) < MAX_HISTORY
                        => history' = Append(history,
                                [cpu_total |-> SumCpu(conn[i].result.users),
                                 ram_total |-> SumRam(conn[i].result.users)])
                   /\ ~LoopRunning(i)
                   /\ poll'[i].pc = "tick"
                   /\ \A j \in Attempts \ {i} : poll'[j] = poll[j]
                   /\ (conn[i].result.users = ExampleBatch /\ history = <<>>)
                        => /\ users' = ExampleBatch
                           /\ history' = <<[cpu_total |-> 1550, ram_total |-> 25000]>>]_vars

\* the second connection of a run went from Connecting to Monitoring while the sort
\* key was RAM: dave (30 MB) is listed before carol (0 MB), who came first in the batch
C12_Witness ==
    /\ state = "Monitoring"
    /\ spawned = 2
    /\ conn[1].pc = "done"
    /\ conn[2].pc = "done"
    /\ ~conn[1].cancelled
    /\ poll[1].left
    /\ poll[2].pc = "tick"
    /\ ~poll[2].left
    /\ sort_by = "Ram"
    /\ Len(users) = 2
    /\ users[1].username = "dave"
    /\ Len(history) = 1


\* C13: when the initial fetch of a submit fails, the state is Config, error_message
\* holds the failure cause, host, username, secret, key path and auth mode are what
\* the submit captured, and users and history are empty.
C13_InitialFailure ==
    [][\A i \in Attempts :
            (ConnMergeStep(i) /\ ~conn[i].result.ok)
                => /\ state' = "Config"
                   /\ config'.error_message =
                        Some(<<"Connection failed: ", conn[i].result.err>>)
                   /\ config'.host = conn[i].creds.host
                   /\ config'.username = conn[i].creds.user
                   /\ config'.use_ssh_key = (conn[i].creds.ssh_key # None)
                   /\ ~config'.use_ssh_key => Some(config'.password) = conn[i].creds.password
                   /\ config'.use_ssh_key => Some(config'.ssh_key_path) = conn[i].creds.ssh_key
                   /\ users' = <<>>
                   /\ history' = <<>>]_vars


\* C14: Enter handled in Config changes no field of the App and starts no fetch,
\* unless host is non-empty, username is non-empty, and key-file mode is on or the
\* secret is non-empty.
C14_InvalidSubmitNoOp ==
    [][(/\ HandleKey(KeyEnter)
        /\ state = "Config"
        /\ ~(/\ config.host # <<>>
              /\ config.username # <<>>
              /\ (config.use_ssh_key \/ config.password # <<>>)))
            => /\ state' = state
               /\ config' = config
               /\ loading' = loading
               /\ users' = users
               /\ history' = history
               /\ selected_user' = selected_user
               /\ sort_by' = sort_by
               /\ should_quit' = should_quit
               /\ spawned' = spawned
               /\ conn' = conn
               /\ poll' = poll]_vars

\* the form with host and username typed, password mode and no secret: Enter was
\* handled (the interactive thread is back at the top of its loop) and nothing started
C14_Witness ==
    /\ state = "Config"
    /\ mainPc = "top"
    /\ config.host # <<>>
    /\ config.username # <<>>
    /\ ~config.use_ssh_key
    /\ config.password = <<>>
    /\ config.current_field = "Password"
    /\ spawned = 0


\* C15: Enter handled in Config with valid credentials sets the state to Connecting,
\* puts the loading animation back to progress 0, direction forward, and starts
\* exactly one connect thread; a connect thread is started by no other step, so the
\* next initial fetch takes a state of Config and another Enter.
C15_ValidSubmit ==
    [][/\ (/\ HandleKey(KeyEnter)
            /\ state = "Config"
            /\ config.host # <<>>
            /\ config.username # <<>>
            /\ (config.use_ssh_key \/ config.password # <<>>))
                => /\ state' = "Connecting"
                   /\ loading' = [progress |-> 0, direction |-> 1]
                   /\ spawned' = spawned + 1
                   /\ conn'[spawned + 1].pc = "fetch"
                   /\ \A j \in Attempts \ {spawned + 1} : conn'[j] = conn[j]
       /\ (spawned' # spawned \/ \E i \in Attempts : conn[i].pc # "fetch" /\ conn'[i].pc = "fetch")
                => /\ state = "Config"
                   /\ HandleKey(KeyEnter)
                   /\ spawned' = spawned + 1]_vars

\* the second submit of a run was just handled: Connecting, animation at its start,
\* the second connect thread about to fetch
C15_Witness ==
    /\ state = "Connecting"
    /\ mainPc = "top"
    /\ spawned = 2
    /\ conn[2].pc = "fetch"
    /\ loading = [progress |-> 0, direction |-> 1]


\* C16: of the keys handled in Connecting only Esc has an effect: it sets the state
\* to Config and leaves host, username, secret, key path, auth mode, users and
\* history as they were; any other key changes no field of the App and starts and
\* stops no thread.
C16_ConnectingKeys ==
    [][\A k \in AllKeys :
            (HandleKey(k) /\ state = "Connecting")
                => IF k.code = "Esc"
                   THEN /\ state' = "Config"
                        /\ Credentials(config') = Credentials(config)
                        /\ users' = users
                        /\ history' = history
                   ELSE /\ state' = state
                        /\ config' = config
                        /\ loading' = loading
                        /\ users' = users
                        /\ history' = history
                        /\ selected_user' = selected_user
                        /\ sort_by' = sort_by
                        /\ should_quit' = should_quit
                        /\ spawned' = spawned
                        /\ conn' = conn
                        /\ poll' = poll]_vars

\* a submit in key-file mode was cancelled: the form is shown again with the
\* credentials the submit captured
C16_Witness ==
    /\ state = "Config"
    /\ mainPc = "top"
    /\ spawned = 1
    /\ conn[1].cancelled
    /\ config.use_ssh_key
    /\ CapturedCreds(config) = conn[1].creds


\* C17: in every reachable state history holds at most MAX_HISTORY points.
C17_HistoryBounded == Len(history) <= MAX_HISTORY

\* the initial merge and HistoryTicks merged ticks: more pushes than the capacity
C17_Witness ==
    /\ state = "Monitoring"
    /\ poll[1].pc = "tick"
    /\ nPolls = HistoryTicks
    /\ nPolls >= MAX_HISTORY
    /\ Len(history) = MAX_HISTORY


Min(a, b) == IF a < b THEN a ELSE b

Max(a, b) == IF a > b THEN a ELSE b

\* merges into history since it was empty, in SpecHistory: the initial merge and the
\* ticks whose result has been merged
Merges == 1 + nPolls - (IF poll[1].pc = "locked" THEN 1 ELSE 0)

\* the point pushed by the n-th tick of SpecHistory (push number n, counting the
\* initial merge as push number 0)
PushedPoint(n) == HistoricalData(ScheduledBatch(n))

\* C18: after N consecutive merges into an empty history of capacity MAX_HISTORY,
\* history holds min(N, MAX_HISTORY) points, in the order of the pushes: its j-th
\* point is push number max(0, N - MAX_HISTORY) + j - 1, so its last point is the
\* one pushed last; after the initial merge and 101 ticks its length is 100 and its
\* first point is the one of tick 2.
C18_FifoEviction ==
    (state = "Monitoring" /\ LoopRunning(1))
        => LET first == Max(0, Merges - MAX_HISTORY)
           IN  /\ Len(history) = Min(Merges, MAX_HISTORY)
               /\ \A j \in 1..Len(history) :
                    first + j - 1 >= 1 => history[j] = PushedPoint(first + j - 1)
               /\ (nPolls = 101 /\ poll[1].pc = "tick")
                    => (Len(history) = 100 /\ history[1] = PushedPoint(2))

\* 101 ticks were merged in one Monitoring session
C18_Witness ==
    /\ state = "Monitoring"
    /\ poll[1].pc = "tick"
    /\ nPolls = 101
    /\ history[1] = PushedPoint(2)
    /\ history[1] # PushedPoint(1)
    /\ history[Len(history)] = PushedPoint(101)


\* C19: in every reachable state in which users is non-empty, selected_user is an
\* index of users: 0 <= selected_user < len(users).
C19_SelectionInRange ==
    users # <<>> => (0 <= selected_user /\ selected_user < Len(users))


\* C20: Down and Up handled in Monitoring move the selection in a circle: with
\* L = len(users) > 0 and selected_user < L, Down yields (selected_user + 1) mod L
\* and Up yields (selected_user - 1) mod L, which is L - 1 from 0; with users empty
\* both leave selected_user as it was.  Neither changes users.
C20_CircularSelection ==
    [][/\ (HandleKey(KeyDown) /\ state = "Monitoring")
            => /\ users' = users
               /\ IF users = <<>>
                  THEN selected_user' = selected_user
                  ELSE selected_user < Len(users)
                        => selected_user' = (selected_user + 1) % Len(users)
       /\ (HandleKey(KeyUp) /\ state = "Monitoring")
            => /\ users' = users
               /\ IF users = <<>>
                  THEN selected_user' = selected_user
                  ELSE selected_user < Len(users)
                        => /\ selected_user' = (selected_user + Len(users) - 1) % Len(users)
                           /\ selected_user = 0 => selected_user' = Len(users) - 1]_vars

\* the selection was moved to the last of three rows
C20_Witness ==
    /\ state = "Monitoring"
    /\ mainPc = "top"
    /\ Len(users) = 3
    /\ selected_user = 2


\* the index after n next moves / n previous moves on a list of length len
RECURSIVE NextMoves(_, _, _)
NextMoves(i, len, n) == IF n = 0 THEN i ELSE NextMoves(next_index(i, len), len, n - 1)

RECURSIVE PreviousMoves(_, _, _)
PreviousMoves(i, len, n) ==
    IF n = 0 THEN i ELSE PreviousMoves(previous_index(i, len), len, n - 1)

\* C21: in every reachable state with a list of length L >= 1, L next moves on that
\* list lead from selected_user back to selected_user, and so do L previous moves.
C21_FullCircle ==
    users # <<>>
        => /\ NextMoves(selected_user, Len(users), Len(users)) = selected_user
           /\ PreviousMoves(selected_user, Len(users), Len(users)) = selected_user


\* C22: in every reachable state users is in descending order of the field selected
\* by sort_by (cpu_percent for Cpu, ram_mb for Ram).
C22_UsersSorted == Descending(users, sort_by)

\* three users listed by RAM: frank (30 MB) first
C22_Witness ==
    /\ state = "Monitoring"
    /\ sort_by = "Ram"
    /\ Len(users) = 3
    /\ users[1].username = "frank"
    /\ Len(history) >= 2


\* the position of a sample in the batch as the remote output listed it
LinePos(lines, u) == CHOOSE p \in 1..Len(lines) : lines[p] = u

\* users that tie in the sort field are in the order of their lines
TiesInLineOrder(us, lines, by) ==
    \A m, n \in 1..Len(us) :
        (m < n /\ SortField(us[m], by) = SortField(us[n], by))
            => LinePos(lines, us[m]) < LinePos(lines, us[n])

\* C23: after a batch is merged (by the connect thread or by a polling loop), users
\* with equal values of the active sort field are in the order in which their lines
\* came in the remote output of that batch, under Cpu and under Ram.
C23_TiesInBatchOrder ==
    [][\A i \in Attempts :
            /\ (ConnMergeStep(i) /\ conn[i].result.ok)
                => \A o \in RemoteOutputsOf(conn[i].creds.host) :
                        conn[i].result.users = sort_users(parse_lines(o), "Cpu")
                            => TiesInLineOrder(users', parse_lines(o), sort_by)
            /\ (PollOkStep(i) /\ state = "Monitoring")
                => \A o \in RemoteOutputsOf(poll[i].creds.host) :
                        poll[i].result.users = sort_users(parse_lines(o), "Cpu")
                            => TiesInLineOrder(users', parse_lines(o), sort_by)]_vars


\* C24: c/C and r/R handled in Monitoring make the key the sort key and put users in
\* descending order of its field; the users are the same, and selected_user,
\* history, state and the credential fields stay as they were.
C24_SetSortFrame ==
    [][\A k \in {KeyChar("c"), KeyChar("C"), KeyChar("r"), KeyChar("R")} :
            (HandleKey(k) /\ state = "Monitoring")
                => LET by == IF k.ch \in {"c", "C"} THEN "Cpu" ELSE "Ram"
                   IN  /\ sort_by' = by
                       /\ SameUsers(users', users)
                       /\ Descending(users', by)
                       /\ selected_user' = selected_user
                       /\ history' = history
                       /\ state' = state
                       /\ Credentials(config') = Credentials(config)]_vars

\* the list was re-sorted by RAM before any tick, with the last row selected: the
\* selection stayed on row 2, which now shows grace
C24_Witness ==
    /\ state = "Monitoring"
    /\ mainPc = "top"
    /\ sort_by = "Ram"
    /\ nPolls = 0
    /\ Len(users) = 3
    /\ selected_user = 2
    /\ users[3].username = "grace"


\* C25: pressing the key of the sort key already in force leaves users as it is,
\* the order of equal elements included.
C25_SortIdempotent ==
    [][/\ (HandleKey(KeyChar("c")) /\ state = "Monitoring" /\ sort_by = "Cpu")
            => users' = users
       /\ (HandleKey(KeyChar("r")) /\ state = "Monitoring" /\ sort_by = "Ram")
            => users' = users]_vars

\* the list of the first merge, re-sorted by RAM, holds a RAM tie (erin, grace)
C25_Witness ==
    /\ state = "Monitoring"
    /\ mainPc = "top"
    /\ sort_by = "Ram"
    /\ nPolls = 0
    /\ Len(users) = 3
    /\ users[2].ram_mb = users[3].ram_mb


\* C26: a connect thread or a polling loop owns the lock only between its
\* lock() and the end of that scope; while it is inside ssh_get_user_stats or
\* asleep between ticks it does not own it, and the interactive thread owns it
\* only inside its two lock scopes.
C26_NoLockDuringFetch ==
    /\ \A i \in Attempts :
            /\ lock = ConnThread(i) => conn[i].pc = "locked"
            /\ lock = PollThread(i) => poll[i].pc = "locked"
            /\ conn[i].pc = "fetch" => lock # ConnThread(i)
            /\ poll[i].pc = "tick" => lock # PollThread(i)
    /\ lock = MainThread => mainPc \in {"frame", "key"}

\* after a merged tick the loop is asleep or fetching again while the
\* interactive thread holds the lock for a key
C26_Witness ==
    /\ \E i \in Attempts : poll[i].pc = "tick"
    /\ nPolls >= 1
    /\ Len(history) >= 2
    /\ lock = MainThread
    /\ mainPc = "key"


\* C28: a valid submit hands its connect thread the password and no key path
\* when use_ssh_key is off, the key path and no password when it is on; every
\* running connect thread and polling loop holds exactly one of the two, a loop
\* starts with what its connect thread held, and no fetch returns the error
\* "No authentication method provided".
C28_OneAuthVariant ==
    [][/\ (HandleKey(KeyEnter) /\ state = "Config" /\ is_valid(config))
            => LET c == conn'[spawned'].creds
               IN  /\ spawned' = spawned + 1
                   /\ c.password = IF config.use_ssh_key THEN None ELSE Some(config.password)
                   /\ c.ssh_key = IF config.use_ssh_key THEN Some(config.ssh_key_path)
                                                         ELSE None
       /\ \A i \in Attempts :
            /\ (ConnMergeStep(i) /\ conn[i].result.ok)
                => poll'[i].creds = conn[i].creds
            /\ conn'[i].pc \in {"fetch", "locked"}
                => /\ (conn'[i].creds.password = None) # (conn'[i].creds.ssh_key = None)
                   /\ conn'[i].result.err # "No authentication method provided"
            /\ LoopRunning(i)'
                => /\ (poll'[i].creds.password = None) # (poll'[i].creds.ssh_key = None)
                   /\ poll'[i].result.err # "No authentication method provided"]_vars

\* a tick of a key-file session was fetched after the user had left it and
\* switched the form back to password mode
C28_Witness ==
    \E i \in Attempts :
        /\ poll[i].pc = "locked"
        /\ poll[i].result.ok
        /\ poll[i].creds.ssh_key = Some(DefaultKeyPath)
        /\ poll[i].creds.password = None
        /\ state = "Config"
        /\ ~config.use_ssh_key


\* history' is history with the point p pushed: appended, and at capacity the
\* oldest point evicted
Pushed(p) ==
    \/ history' = Append(history, p)
    \/ Len(history) = MAX_HISTORY /\ history' = Append(Tail(history), p)

\* C29: every merge of a fetched batch (initial or tick) pushes exactly one point
\* whose cpu_total and ram_total are the sums of cpu_percent and ram_mb over the
\* batch; history changes only by such a push (append at the end, the oldest
\* point evicted at capacity) or by being cleared when the user leaves
\* Monitoring, so a point in history is never modified.
C29_HistoryAppendOnly ==
    [][/\ \A i \in Attempts :
            /\ (ConnMergeStep(i) /\ conn[i].result.ok)
                => Pushed([cpu_total |-> SumCpu(conn[i].result.users),
                           ram_total |-> SumRam(conn[i].result.users)])
            /\ (PollOkStep(i) /\ state = "Monitoring")
                => Pushed([cpu_total |-> SumCpu(poll[i].result.users),
                           ram_total |-> SumRam(poll[i].result.users)])
       /\ history' # history
            => \/ /\ history' = <<>>
                  /\ state = "Monitoring"
                  /\ state' = "Config"
                  /\ \E k \in {KeyEsc, KeyChar("q")} : HandleKey(k)
               \/ /\ Len(history') = Len(history) + 1
                  /\ SubSeq(history', 1, Len(history)) = history
               \/ /\ Len(history) = MAX_HISTORY
                  /\ Len(history') = MAX_HISTORY
                  /\ SubSeq(history', 1, MAX_HISTORY - 1) = Tail(history)]_vars

\* the initial merge and MAX_HISTORY ticks were merged: the last push evicted the
\* oldest point and appended the sums of OutputB (0.50 + 0.50, 0 + 30.00)
C29_Witness ==
    /\ state = "Monitoring"
    /\ poll[1].pc = "tick"
    /\ nPolls = MAX_HISTORY
    /\ Len(history) = MAX_HISTORY
    /\ history[MAX_HISTORY] = [cpu_total |-> 100, ram_total |-> 3000]
    /\ history[1] = [cpu_total |-> 1550, ram_total |-> 25000]


\* C27: whatever the remote output, a fetch that reached the host returns one
\* sample per line of at least three tokens, a cpu or memory token that is not a
\* decimal numeral read as 0, and the fetch and the merge of its result run to
\* their end.
C27_ParsingNeverFails ==
    [][\A i \in Attempts :
            /\ (conn[i].pc = "fetch" /\ conn'[i].pc # "fetch")
                => /\ conn'[i].pc = "locked"
                   /\ conn'[i].result.ok
                        => \A n \in 1..Len(conn'[i].result.users) :
                                /\ conn'[i].result.users[n].cpu_percent >= 0
                                /\ conn'[i].result.users[n].ram_mb >= 0
            /\ (poll[i].pc = "tick" /\ poll'[i].pc # "tick")
                => /\ poll'[i].pc = "locked"
                   /\ \A n \in 1..Len(poll'[i].result.users) :
                        /\ poll'[i].result.users[n].cpu_percent >= 0
                        /\ poll'[i].result.users[n].ram_mb >= 0
            /\ (conn[i].pc = "locked" /\ conn'[i].pc # "locked") => conn'[i].pc = "done"
            /\ (poll[i].pc = "locked" /\ poll'[i].pc # "locked")
                => poll'[i].pc \in {"tick", "done"}]_vars

\* C30: every lock() returns the guard: the interactive thread leaves the top of
\* its loop and its wait for a key only as the owner of the lock, and no connect
\* thread or polling loop ends at a lock() that found the mutex poisoned.
C30_LockRequestsGranted ==
    [][/\ (mainPc \in {"top", "event"} /\ mainPc' # mainPc) => lock' = MainThread
       /\ \A i \in Attempts :
            /\ (conn[i].pc = "fetch" /\ conn'[i].pc = "dead") => lock # Poisoned
            /\ (poll[i].pc = "tick" /\ poll'[i].pc = "dead") => lock # Poisoned]_vars


\* C31: the drawing of the credential form depends on the password only through
\* its length: replacing the password by any other password of the same length
\* leaves every row, the highlight and the status line as they are, and the
\* password row holds nothing but the label and one star per character.
C31_SecretMasked ==
    /\ \A s \in Secrets(MaxLen) :
            Len(s) = Len(config.password)
                => render_config_screen([config EXCEPT !.password = s])
                        = render_config_screen(config)
    /\ ~config.use_ssh_key
        => \A j \in 1..Len(render_config_screen(config).secret[2]) :
                render_config_screen(config).secret[2][j] = "*"

\* the form is shown with a two-character password that another password of the
\* same length differs from
C31_Witness ==
    /\ state = "Config"
    /\ mainPc = "frame"
    /\ config.password = <<"a", "c">>
    /\ <<"c", "a">> \in Secrets(MaxLen)


\* C32: a polling loop completes a fetch only from its sleep with no result
\* pending, holds a result only between that fetch and the handling of it under
\* the lock, and a merge applies the result of the loop's latest fetch and
\* consumes it: the polls of one loop never overlap and are merged in the order
\* they complete.
C32_SerialPolls ==
    [][\A i \in Attempts :
            /\ (poll'[i] # poll[i] /\ nPolls' = nPolls + 1)
                => (poll[i].pc = "tick" /\ poll[i].result = NoResult)
            /\ poll'[i].result # NoResult => poll'[i].pc = "locked"
            /\ (PollOkStep(i) /\ state = "Monitoring")
                => /\ users' = sort_users(poll[i].result.users, sort_by)
                   /\ poll'[i].result = NoResult
                   /\ poll'[i].pc = "tick"]_vars

\* the second tick was fetched after the first one had been merged
C32_Witness ==
    /\ state = "Monitoring"
    /\ nPolls = 2
    /\ poll[1].pc = "locked"
    /\ poll[1].fails = 0
    /\ Len(history) = 2


\* C33: in every reachable state the last point of a non-empty history holds the
\* sums of cpu_percent and ram_mb over users, and users is non-empty only when
\* history is: users and its point are written, and cleared, together.
C33_BatchAtomic ==
    /\ history # <<>>
        => history[Len(history)] = [cpu_total |-> SumCpu(users), ram_total |-> SumRam(users)]
    /\ users # <<>> => history # <<>>

\* a tick with grace, frank and erin was merged after the list had been re-sorted by
\* RAM: the last point holds 2.00 + 2.00 + 4.00 and 20.00 + 30.00 + 20.00
C33_Witness ==
    /\ state = "Monitoring"
    /\ sort_by = "Ram"
    /\ nPolls >= 1
    /\ Len(users) = 3
    /\ Len(history) >= 2
    /\ history[Len(history)] = [cpu_total |-> 800, ram_total |-> 7000]


\* C34: in every reachable state the active field agrees with the auth mode:
\* current_field = Password only with use_ssh_key off, current_field = SSHKeyPath
\* only with use_ssh_key on.
C34_FieldMatchesMode ==
    /\ config.current_field = "Password" => ~config.use_ssh_key
    /\ config.current_field = "SSHKeyPath" => config.use_ssh_key

\* key mode was switched on at the toggle field and the user moved on to the key
\* path, with host and username typed before
C34_Witness ==
    /\ state = "Config"
    /\ config.current_field = "SSHKeyPath"
    /\ config.use_ssh_key
    /\ config.host # <<>>
    /\ config.username # <<>>

\* C35: in every reachable state use_ssh_key on implies that the password is empty.
C35_KeyModeNoPassword == config.use_ssh_key => config.password = <<>>

\* in key mode a character was typed: it went to the key path, the password is empty
C35_Witness ==
    /\ state = "Config"
    /\ config.use_ssh_key
    /\ config.current_field = "SSHKeyPath"
    /\ config.ssh_key_path = Append(DefaultKeyPath, "a")
    /\ config.password = <<>>


\* the character ch occurs in the text s
Contains(s, ch) == \E j \in 1..Len(s) : s[j] = ch

\* C36: on the form, q requests quit and leaves the form as it is, the space bar
\* does what toggle_ssh_key does and is appended to no field, and every other
\* character is appended to the active text field (and dropped on the toggle
\* field); host, username and password never contain q or a space.
C36_QuitAndToggleKeys ==
    [][/\ \A k \in {KeyChar(ch) : ch \in Chars} :
            (HandleKey(k) /\ state = "Config")
                => CASE k.ch = "q" -> should_quit' /\ config' = config
                     [] k.ch = " " ->
                            /\ config' = toggle_ssh_key(config)
                            /\ config'.host = config.host
                            /\ config'.username = config.username
                            /\ config'.ssh_key_path = config.ssh_key_path
                            /\ config'.password \in {config.password, <<>>}
                            /\ should_quit' = should_quit
                     [] OTHER ->
                            /\ should_quit' = should_quit
                            /\ IF config.current_field = "UseSSHKey"
                               THEN config' = config
                               ELSE /\ ActiveText(config') = Append(ActiveText(config), k.ch)
                                    /\ config'.current_field = config.current_field
       /\ \A ch \in {"q", " "} :
            /\ ~Contains(config'.host, ch)
            /\ ~Contains(config'.username, ch)
            /\ ~Contains(config'.password, ch)]_vars

\* q was pressed on the form while the host field, holding a typed character,
\* was active: quit is requested and the host is as typed
C36_Witness ==
    /\ state = "Config"
    /\ should_quit
    /\ mainPc = "top"
    /\ config.current_field = "Host"
    /\ config.host = <<"a">>


\* C37: error_message changes only in the arm of a connect thread's result: a
\* failed fetch sets it to the message of its error, a successful one clears it;
\* no key (a submit, a cancel, an edit of a field) changes it.
C37_ErrorSticky ==
    [][/\ config'.error_message # config.error_message
            => \E i \in Attempts :
                    /\ ConnMergeStep(i)
                    /\ config'.error_message =
                            IF conn[i].result.ok
                            THEN None
                            ELSE Some(<<"Connection failed: ", conn[i].result.err>>)
       /\ \A k \in AllKeys : HandleKey(k) => config'.error_message = config.error_message]_vars

\* the first attempt failed, the user typed a second character of the password,
\* submitted again and cancelled: the form shows the error of the first attempt
C37_Witness ==
    /\ state = "Config"
    /\ mainPc = "top"
    /\ conn[1].pc = "done"
    /\ conn[2].pc = "fetch"
    /\ conn[2].cancelled
    /\ config.password = <<"a", "a">>
    /\ config.error_message = Some(<<"Connection failed: ", "AuthError">>)


\* C38: progress is always an even number from 0 to 100 and direction is 1 or -1;
\* a frame drawn in Connecting moves progress by 2, upwards until 100, where the
\* direction turns, and downwards until 0, where it turns again; loading changes
\* at no other step but a valid submit, which starts it anew.
C38_BoundedOscillation ==
    [][/\ loading'.progress % 2 = 0
       /\ 0 <= loading'.progress
       /\ loading'.progress <= 100
       /\ loading'.direction \in {1, -1}
       /\ (mainPc = "frame" /\ mainPc' # "frame" /\ state = "Connecting")
            => IF loading.direction = 1
               THEN /\ loading'.progress = loading.progress + 2
                    /\ loading'.direction = IF loading'.progress = 100 THEN -1 ELSE 1
               ELSE /\ loading'.progress = loading.progress - 2
                    /\ loading'.direction = IF loading'.progress = 0 THEN 1 ELSE -1
       /\ loading' # loading
            => \/ mainPc = "frame" /\ mainPc' # "frame" /\ state = "Connecting"
               \/ /\ HandleKey(KeyEnter)
                  /\ state = "Config"
                  /\ loading' = LoadingScreen_new]_vars

\* the bar went up to 100, turned and fell one step; then the user cancelled, and
\* it stays where it was
C38_Witness ==
    /\ state = "Config"
    /\ spawned = 1
    /\ conn[1].cancelled
    /\ loading = [progress |-> 98, direction |-> -1]
    /\ mainPc = "top"

====
